---- MODULE Spec2Model ----
(***************************************************************************)
(* Pipeline error hierarchy and fatal-error classifier of                  *)
(* research/python-error-examples.py.                                      *)
(*                                                                         *)
(* Python values are tagged records ([t |-> "str", s |-> ...]), a Python   *)
(* dict is a function from its string keys, and an exception instance is   *)
(* a record of its class, its instance __dict__ (attrs), the message kept  *)
(* by BaseException (args) and its __cause__.  A call either returns a     *)
(* value or raises: an outcome is [raised |-> <exception name or "none">,  *)
(* value |-> <returned value>].                                            *)
(***************************************************************************)
EXTENDS Integers, Sequences, FiniteSets, TLC

VARIABLES
    err,      \* the value the driver currently holds (what it caught)
    ctor,     \* the raise the driver is about to see, then has seen: the
              \* constructor's arguments, or the foreign value thrown
    op,       \* the last operation executed
    flag,     \* continue_on_error of the last is_fatal_error call
    out       \* the outcome of the last operation

vars == <<err, ctor, op, flag, out>>

----------------------------------------------------------------------------
\* Bounds of the model

\* largest number of entries of a metadata mapping
MaxMeta == 1

----------------------------------------------------------------------------
\* Python values

None == [t |-> "None"]

Str(s) == [t |-> "str", s |-> s]

IntVal(n) == [t |-> "int", n |-> n]

Bool(b) == [t |-> "bool", b |-> b]

Datetime(n) == [t |-> "datetime", n |-> n]

Dict(d) == [t |-> "dict", d |-> d]

EmptyMap == [k \in {} |-> None]

\* a standard exception, outside the PipelineError hierarchy
StdExc(cls, message) ==
    [t |-> "exc", cls |-> cls, attrs |-> EmptyMap, args |-> message, cause |-> None]

Return(v) == [raised |-> "none", value |-> v]

Raise(e) == [raised |-> e, value |-> None]

\* dict.update / item assignment: the entries of other replace those of result
DictUpdate(result, other) ==
    [k \in (DOMAIN result) \cup (DOMAIN other) |->
        IF k \in DOMAIN other THEN other[k] ELSE result[k]]

DictSet(result, key, value) ==
    [k \in (DOMAIN result) \cup {key} |-> IF k = key THEN value ELSE result[k]]

----------------------------------------------------------------------------
\* class ErrorCode(str, Enum): a member equals its string value

ErrorCode ==
    { "SESSION_LOAD_FAILED", "SESSION_SAVE_FAILED", "SESSION_NOT_FOUND",
      "SESSION_INVALID_BUGFIX_PATH",
      "TASK_EXECUTION_FAILED", "TASK_VALIDATION_FAILED", "TASK_NOT_FOUND",
      "AGENT_LLM_FAILED", "AGENT_TIMEOUT", "AGENT_PARSE_FAILED",
      "VALIDATION_INVALID_INPUT", "VALIDATION_MISSING_FIELD",
      "VALIDATION_SCHEMA_FAILED", "VALIDATION_CIRCULAR_DEPENDENCY",
      "VALIDATION_NESTED_EXECUTION",
      "RESOURCE_LIMIT_EXCEEDED" }

----------------------------------------------------------------------------
\* @dataclass ErrorContext

\* the named fields, in the order to_dict visits them
NamedFields == <<"session_path", "task_id", "operation", "user_id">>

\* the keyword arguments the generated __init__ accepts
ErrorContextParams == {"session_path", "task_id", "operation", "user_id", "metadata"}

ErrorContext(session_path, task_id, operation, user_id, metadata) ==
    [t |-> "ErrorContext", session_path |-> session_path, task_id |-> task_id,
     operation |-> operation, user_id |-> user_id, metadata |-> metadata]

\* ErrorContext(): every field None, metadata an empty dict
EmptyErrorContext == ErrorContext(None, None, None, None, Dict(EmptyMap))

\* ErrorContext(**context): unknown keywords are a TypeError, missing ones
\* take their default
ErrorContextFromMapping(context) ==
    IF ~((DOMAIN context) \subseteq ErrorContextParams)
    THEN Raise("TypeError")
    ELSE LET arg(k, default) == IF k \in DOMAIN context THEN context[k] ELSE default
         IN  Return(ErrorContext(arg("session_path", None), arg("task_id", None),
                                 arg("operation", None), arg("user_id", None),
                                 arg("metadata", Dict(EmptyMap))))

\* the loop of ErrorContext.to_dict over the named fields, from index i on
RECURSIVE CopyNamedFields(_, _, _)
CopyNamedFields(self, i, result) ==
    IF i > Len(NamedFields) THEN result
    ELSE LET key == NamedFields[i]
             value == self[key]
         IN  CopyNamedFields(self, i + 1,
                 IF value # None THEN DictSet(result, key, value) ELSE result)

\* a to_dict that merges the metadata first, so that a named field wins
ErrorContext_to_dict_fields_last(self) ==
    DictUpdate(self.metadata.d, CopyNamedFields(self, 1, EmptyMap))

ErrorContext_to_dict(self) ==
    DictUpdate(CopyNamedFields(self, 1, EmptyMap), self.metadata.d)

----------------------------------------------------------------------------
\* class PipelineError and its concrete variants

ConcreteVariants ==
    {"SessionError", "TaskError", "ValidationError",
     "BugfixSessionValidationError", "NestedExecutionError"}

\* the variants whose __init__ takes a code argument and stores it in _code
SelectableCode == {"SessionError", "ValidationError"}

\* _default_code of the two variants with a selectable code
DefaultCode(cls) ==
    IF cls = "SessionError" THEN Str("SESSION_LOAD_FAILED")
    ELSE Str("VALIDATION_INVALID_INPUT")

\* attributes the classes define as properties without a setter: setattr on
\* an instance raises AttributeError
ReadOnlyProperties == {"code"}

IsException(x) == x.t = "exc"

\* the code property of each variant
code(self) ==
    CASE self.cls \in SelectableCode -> self.attrs["_code"]
      [] self.cls = "TaskError" -> Str("TASK_EXECUTION_FAILED")
      [] self.cls = "BugfixSessionValidationError" -> Str("SESSION_INVALID_BUGFIX_PATH")
      [] self.cls = "NestedExecutionError" -> Str("VALIDATION_NESTED_EXECUTION")

\* a normalisation without the final else: any other argument counts as absent
NormalizeContext_no_else(context) ==
    CASE context.t = "ErrorContext" -> Return(context)
      [] context.t = "dict" -> ErrorContextFromMapping(context.d)
      [] OTHER -> Return(EmptyErrorContext)

\* "Normalize context to ErrorContext": the outcome is the ErrorContext the
\* error will hold, or the TypeError of a malformed argument
NormalizeContext(context) ==
    CASE context.t = "ErrorContext" -> Return(context)
      [] context.t = "dict" -> ErrorContextFromMapping(context.d)
      [] context = None -> Return(EmptyErrorContext)
      [] OTHER -> Raise("TypeError")

\* "Copy context to instance for easy access": setattr(self, key, value) for
\* every item of the context's to_dict(); a key naming a read-only property
\* raises AttributeError, any other key lands in the instance __dict__
CopyContextToInstance(attrs, items) ==
    IF (DOMAIN items) \cap ReadOnlyProperties # {}
    THEN Raise("AttributeError")
    ELSE Return(DictUpdate(attrs, items))

\* PipelineError.__init__ on an instance whose __dict__ is attrs0
PipelineError_init(cls, attrs0, message, context, cause, now) ==
    LET stamped == DictSet(attrs0, "timestamp", Datetime(now))
        ctx == NormalizeContext(context)
    IN  IF ctx.raised # "none" THEN Raise(ctx.raised)
        ELSE LET held == DictSet(stamped, "context", ctx.value)
                 copied == CopyContextToInstance(held, ErrorContext_to_dict(ctx.value))
             IN  IF copied.raised # "none" THEN Raise(copied.raised)
                 ELSE Return([t |-> "exc", cls |-> cls, attrs |-> copied.value,
                              args |-> message, cause |-> cause])

\* SessionError.__init__ / ValidationError.__init__ store the code first;
\* the other variants inherit PipelineError.__init__ (codeArg is None)
Construct(cls, message, context, cause, codeArg, now) ==
    IF cls \in SelectableCode
    THEN PipelineError_init(cls,
             DictSet(EmptyMap, "_code",
                     IF codeArg # None THEN codeArg ELSE DefaultCode(cls)),
             message, context, cause, now)
    ELSE PipelineError_init(cls, EmptyMap, message, context, cause, now)

\* looking up a method on an instance and calling it: an entry of the
\* instance __dict__ shadows the class's function, and calling a value that
\* is not callable is a TypeError
Shadowed(self, method) == method \in DOMAIN self.attrs

SessionError_is_load_error(self) ==
    IF Shadowed(self, "is_load_error") THEN Raise("TypeError")
    ELSE Return(Bool(self.attrs["_code"] = Str("SESSION_LOAD_FAILED")))

SessionError_is_save_error(self) ==
    IF Shadowed(self, "is_save_error") THEN Raise("TypeError")
    ELSE Return(Bool(self.attrs["_code"] = Str("SESSION_SAVE_FAILED")))

\* PipelineError.__str__: "[<code>] <message>" and, when the context's
\* to_dict() is not empty, " | Context: <dict>"; kept as its parts
PipelineError_str(self) ==
    LET context == self.attrs["context"]
    IN  IF context.t # "ErrorContext" THEN Raise("AttributeError")
        ELSE LET ctx_dict == ErrorContext_to_dict(context)
                 head == <<Str("["), code(self), Str("] "), self.args>>
             IN  Return([t |-> "text",
                         parts |-> IF ctx_dict # EmptyMap
                                   THEN head \o <<Str(" | Context: "), Dict(ctx_dict)>>
                                   ELSE head])

\* str() of any exception: PipelineError.__str__ for a pipeline error, the
\* message for a standard exception
ExceptionStr(e) ==
    IF e.cls \in ConcreteVariants THEN PipelineError_str(e)
    ELSE Return([t |-> "text", parts |-> <<e.args>>])

\* datetime.isoformat(); a value that is no datetime has no such method
Isoformat(timestamp) ==
    IF timestamp.t = "datetime" THEN Return([t |-> "iso", n |-> timestamp.n])
    ELSE Raise("AttributeError")

\* PipelineError.to_dict
PipelineError_to_dict(self) ==
    LET message == PipelineError_str(self)
        stamp == Isoformat(self.attrs["timestamp"])
    IN  IF Shadowed(self, "to_dict") THEN Raise("TypeError")
        ELSE IF message.raised # "none" THEN Raise(message.raised)
        ELSE IF stamp.raised # "none" THEN Raise(stamp.raised)
        ELSE LET base == [name |-> Str(self.cls), code |-> code(self),
                          message |-> message.value, timestamp |-> stamp.value]
                 ctx_dict == ErrorContext_to_dict(self.attrs["context"])
                 withCtx == IF ctx_dict # EmptyMap
                            THEN DictSet(base, "context", Dict(ctx_dict))
                            ELSE base
                 causeStr == ExceptionStr(self.cause)
             IN  IF self.cause = None THEN Return(Dict(withCtx))
                 ELSE IF causeStr.raised # "none" THEN Raise(causeStr.raised)
                 ELSE Return(Dict(DictSet(withCtx, "cause",
                          Dict([name |-> Str(self.cause.cls),
                                message |-> causeStr.value]))))

\* json.dumps: a dict becomes an object, a string a JSON string, None null;
\* a value of any other type is not serializable
RECURSIVE JsonDumps(_)
JsonDumps(v) ==
    CASE v.t = "dict" ->
            LET members == [k \in DOMAIN v.d |-> JsonDumps(v.d[k])]
            IN  IF \E k \in DOMAIN v.d : members[k].raised # "none"
                THEN Raise("TypeError")
                ELSE Return([t |-> "json", kind |-> "object",
                             members |-> [k \in DOMAIN v.d |-> members[k].value]])
      [] v.t \in {"str", "text", "iso"} ->
            Return([t |-> "json", kind |-> "string", chars |-> v])
      [] v.t = "None" -> Return([t |-> "json", kind |-> "null"])
      [] OTHER -> Raise("TypeError")

\* PipelineError.to_json
PipelineError_to_json(self) ==
    LET d == PipelineError_to_dict(self)
    IN  IF Shadowed(self, "to_json") THEN Raise("TypeError")
        ELSE IF d.raised # "none" THEN Raise(d.raised)
        ELSE JsonDumps(d.value)

----------------------------------------------------------------------------
\* Type guards: isinstance against a class of the hierarchy

is_session_error(error) == IsException(error) /\ error.cls = "SessionError"

is_task_error(error) == IsException(error) /\ error.cls = "TaskError"

is_validation_error(error) == IsException(error) /\ error.cls = "ValidationError"

is_pipeline_error(error) == IsException(error) /\ error.cls \in ConcreteVariants

\* an isinstance tuple that misses NestedExecutionError
FatalMarkers_bugfix_only == {"BugfixSessionValidationError"}

\* the classes of the isinstance tuple whose instances are always fatal
FatalMarkers == {"BugfixSessionValidationError", "NestedExecutionError"}

\* error.is_load_error() or error.is_save_error(): the second call is made
\* only when the first returned False
SessionFatal(error) ==
    LET load == SessionError_is_load_error(error)
    IN  IF load.raised # "none" THEN load
        ELSE IF load.value.b THEN Return(Bool(TRUE))
        ELSE SessionError_is_save_error(error)

\* a comparison against the wrong member of ErrorCode
ValidationFatal_wrong_code(error) ==
    Return(Bool(code(error) = Str("VALIDATION_INVALID_INPUT")))

\* error.code == ErrorCode.VALIDATION_NESTED_EXECUTION
ValidationFatal(error) ==
    Return(Bool(code(error) = Str("VALIDATION_NESTED_EXECUTION")))

\* a classifier that consults continue_on_error only after the marker variants
is_fatal_error_late_override(error, continue_on_error) ==
    IF error = None \/ ~IsException(error) THEN Return(Bool(FALSE))
    ELSE IF is_pipeline_error(error)
         THEN IF error.cls \in FatalMarkers THEN Return(Bool(TRUE))
              ELSE IF continue_on_error THEN Return(Bool(FALSE))
              ELSE IF is_session_error(error) THEN SessionFatal(error)
              ELSE IF is_validation_error(error) THEN ValidationFatal(error)
              ELSE Return(Bool(FALSE))
    ELSE Return(Bool(FALSE))

\* a classifier whose fall-through for the remaining pipeline errors is fatal
is_fatal_error_task_fatal(error, continue_on_error) ==
    IF continue_on_error THEN Return(Bool(FALSE))
    ELSE IF error = None \/ ~IsException(error) THEN Return(Bool(FALSE))
    ELSE IF is_pipeline_error(error)
         THEN IF error.cls \in FatalMarkers THEN Return(Bool(TRUE))
              ELSE IF is_session_error(error) THEN SessionFatal(error)
              ELSE IF is_validation_error(error) THEN ValidationFatal(error)
              ELSE Return(Bool(TRUE))
    ELSE Return(Bool(FALSE))

is_fatal_error(error, continue_on_error) ==
    IF continue_on_error THEN Return(Bool(FALSE))
    ELSE IF error = None \/ ~IsException(error) THEN Return(Bool(FALSE))
    ELSE IF is_pipeline_error(error)
         THEN IF error.cls \in FatalMarkers THEN Return(Bool(TRUE))
              ELSE IF is_session_error(error) THEN SessionFatal(error)
              ELSE IF is_validation_error(error) THEN ValidationFatal(error)
              ELSE Return(Bool(FALSE))
    ELSE Return(Bool(FALSE))

----------------------------------------------------------------------------
\* The inputs the callers draw from

Messages == {Str("x")}

SessionPaths == {None, Str("/a")}

TaskIds == {None, Str("T1")}

Operations == {None, Str("load_session")}

UserIds == {None, Str("u1")}

\* metadata keys: a free key, the name of a named field, and names the error
\* instance or its class already use
MetaKeys ==
    {"existing_pid", "task_id", "_code", "code", "timestamp", "context",
     "is_load_error"}

MetaValues == {Str("SESSION_SAVE_FAILED")}

Metadatas ==
    UNION { [S -> MetaValues] : S \in {T \in SUBSET MetaKeys : Cardinality(T) <= MaxMeta} }

ErrorContexts ==
    { ErrorContext(sp, tid, opn, uid, Dict(md)) :
        sp \in SessionPaths, tid \in TaskIds, opn \in Operations,
        uid \in UserIds, md \in Metadatas }

\* the raw mapping a caller writes for the same context: the fields it sets
MappingOf(ctx) ==
    LET named == CopyNamedFields(ctx, 1, EmptyMap)
    IN  Dict(IF ctx.metadata.d # EmptyMap
             THEN DictSet(named, "metadata", ctx.metadata)
             ELSE named)

\* callers that pass a raw mapping set the session path and the task id
Mappings ==
    { MappingOf(c) : c \in {x \in ErrorContexts : x.operation = None /\ x.user_id = None} }

\* mappings with a key ErrorContext does not have, and arguments of a type
\* that is neither ErrorContext, dict nor None
UnknownKeyMappings ==
    { Dict(DictSet(EmptyMap, "bogus", Str("v"))),
      Dict(DictSet(DictSet(EmptyMap, "task_id", Str("T1")), "pid", Str("v"))) }

WrongTypeContexts == {Str("/a"), IntVal(42)}

Contexts ==
    {None} \cup ErrorContexts \cup Mappings \cup UnknownKeyMappings \cup WrongTypeContexts

CodeArgs ==
    {None, Str("SESSION_LOAD_FAILED"), Str("SESSION_SAVE_FAILED"),
     Str("SESSION_NOT_FOUND"), Str("VALIDATION_NESTED_EXECUTION"), Str("BOGUS")}

\* the instant datetime.utcnow() returns
Instants == {1}

\* a wrapped lower-level failure: a standard exception, or a pipeline error
\* that has a context of its own
Causes ==
    {None, StdExc("FileNotFoundError", Str("missing")),
     Construct("SessionError", Str("c"),
               ErrorContext(None, Str("Q"), None, None, Dict(EmptyMap)),
               None, None, 0).value}

\* what a driver may catch that no constructor of this module produced
OtherValues == {None, Str("plain string"), StdExc("ValueError", Str("Standard error"))}

\* raise <variant>(message, context, cause[, code])
Calls ==
    { [cls |-> cls, message |-> message, context |-> context, cause |-> cause,
       code |-> codeArg, now |-> now] :
        cls \in ConcreteVariants, message \in Messages, context \in Contexts,
        cause \in Causes, codeArg \in CodeArgs, now \in Instants }

\* only the variants with a selectable code take the code argument
AcceptedCalls == {c \in Calls : c.code # None => c.cls \in SelectableCode}

Foreign == { [cls |-> "none", value |-> x] : x \in OtherValues }

NoOutcome == Return(None)

----------------------------------------------------------------------------
\* The driver: one failure is raised, caught, and then classified and
\* serialized any number of times

Init ==
    /\ ctor \in AcceptedCalls \cup Foreign
    /\ err = None
    /\ op = "init"
    /\ flag = FALSE
    /\ out = NoOutcome

\* the driver catches the new error, or the exception its constructor raised
Caught(made) ==
    /\ op' = "construct"
    /\ out' = made
    /\ err' = IF made.raised = "none" THEN made.value
              ELSE StdExc(made.raised, Str("constructor"))
    /\ flag' = FALSE
    /\ UNCHANGED ctor

RaiseSelectable ==
    /\ op = "init"
    /\ ctor.cls \in SelectableCode
    /\ Caught(Construct(ctor.cls, ctor.message, ctor.context, ctor.cause,
                        ctor.code, ctor.now))

RaiseFixed ==
    /\ op = "init"
    /\ ctor.cls \in ConcreteVariants \ SelectableCode
    /\ Caught(Construct(ctor.cls, ctor.message, ctor.context, ctor.cause,
                        None, ctor.now))

\* the driver catches a value that is no pipeline error
CatchOther ==
    /\ op = "init"
    /\ ctor.cls = "none"
    /\ err' = ctor.value
    /\ op' = "catch"
    /\ out' = NoOutcome
    /\ flag' = FALSE
    /\ UNCHANGED ctor

Classify ==
    /\ op # "init"
    /\ \E continue_on_error \in BOOLEAN :
        /\ op' = "is_fatal_error"
        /\ flag' = continue_on_error
        /\ out' = is_fatal_error(err, continue_on_error)
        /\ UNCHANGED <<err, ctor>>

\* a to_dict that refreshes the timestamp of the error it serializes
Serialize_restamps ==
    /\ op # "init"
    /\ is_pipeline_error(err)
    /\ op' = "to_dict"
    /\ out' = PipelineError_to_dict(err)
    /\ flag' = FALSE
    /\ err' = [err EXCEPT !.attrs = DictSet(@, "timestamp", Datetime(0))]
    /\ UNCHANGED ctor

Serialize ==
    /\ op # "init"
    /\ is_pipeline_error(err)
    /\ op' = "to_dict"
    /\ out' = PipelineError_to_dict(err)
    /\ flag' = FALSE
    /\ UNCHANGED <<err, ctor>>

\* a caller reads error.context.to_dict()
InspectContext ==
    /\ op # "init"
    /\ is_pipeline_error(err)
    /\ op' = "context.to_dict"
    /\ out' = IF err.attrs["context"].t = "ErrorContext"
              THEN Return(Dict(ErrorContext_to_dict(err.attrs["context"])))
              ELSE Raise("AttributeError")
    /\ flag' = FALSE
    /\ UNCHANGED <<err, ctor>>

SerializeJson ==
    /\ op # "init"
    /\ is_pipeline_error(err)
    /\ op' = "to_json"
    /\ out' = PipelineError_to_json(err)
    /\ flag' = FALSE
    /\ UNCHANGED <<err, ctor>>

\* the string form, as in print(f"{e}")
Describe ==
    /\ op # "init"
    /\ is_pipeline_error(err)
    /\ op' = "str"
    /\ out' = PipelineError_str(err)
    /\ flag' = FALSE
    /\ UNCHANGED <<err, ctor>>

\* a caller that narrowed the error to SessionError asks its predicates
AskLoad ==
    /\ op # "init"
    /\ is_session_error(err)
    /\ op' = "is_load_error"
    /\ out' = SessionError_is_load_error(err)
    /\ flag' = FALSE
    /\ UNCHANGED <<err, ctor>>

AskSave ==
    /\ op # "init"
    /\ is_session_error(err)
    /\ op' = "is_save_error"
    /\ out' = SessionError_is_save_error(err)
    /\ flag' = FALSE
    /\ UNCHANGED <<err, ctor>>

\* the type-membership queries, in the if/elif chain of a caller
Narrow ==
    /\ op # "init"
    /\ op' = "narrow"
    /\ out' = Return(Str(IF is_session_error(err) THEN "SessionError"
                         ELSE IF is_task_error(err) THEN "TaskError"
                         ELSE IF is_validation_error(err) THEN "ValidationError"
                         ELSE IF is_pipeline_error(err) THEN "PipelineError"
                         ELSE "other"))
    /\ flag' = FALSE
    /\ UNCHANGED <<err, ctor>>

Next ==
    \/ RaiseSelectable
    \/ RaiseFixed
    \/ CatchOther
    \/ Classify
    \/ Serialize
    \/ InspectContext
    \/ SerializeJson
    \/ Describe
    \/ AskLoad
    \/ AskSave
    \/ Narrow

Spec == Init /\ [][Next]_vars

----------------------------------------------------------------------------
\* Properties of the classifier

Classified(continue_on_error) == op = "is_fatal_error" /\ flag = continue_on_error

ClassOf(x) == IF IsException(x) THEN x.cls ELSE "none"

\* C1: with continue_on_error true, is_fatal_error returns False for every
\* value: None, a plain value, a standard exception and every pipeline error,
\* the fatal marker variants included.
C1_OverrideIsNonFatal ==
    Classified(TRUE) => out = Return(Bool(FALSE))

C1_Witness ==
    /\ Classified(TRUE)
    /\ ClassOf(err) = "NestedExecutionError"
    /\ out = Return(Bool(FALSE))

\* C2: with continue_on_error false, is_fatal_error returns True for every
\* BugfixSessionValidationError and every NestedExecutionError, whatever its
\* message, context and cause.
C2_MarkersAreFatal ==
    (Classified(FALSE)
        /\ ClassOf(err) \in {"BugfixSessionValidationError", "NestedExecutionError"})
    => out = Return(Bool(TRUE))

C2_Witness ==
    /\ Classified(FALSE)
    /\ ClassOf(err) = "NestedExecutionError"
    /\ err.cause # None
    /\ "is_load_error" \in DOMAIN err.attrs
    /\ out = Return(Bool(TRUE))

\* C3: with continue_on_error false, is_fatal_error of a SessionError returns
\* True if its code is SESSION_LOAD_FAILED or SESSION_SAVE_FAILED and returns
\* False for every other code.
C3_SessionFatalIffLoadOrSave ==
    (Classified(FALSE) /\ ClassOf(err) = "SessionError")
    => out = Return(Bool(code(err) \in {Str("SESSION_LOAD_FAILED"),
                                        Str("SESSION_SAVE_FAILED")}))

\* C4: with continue_on_error false, is_fatal_error of a ValidationError
\* returns True if its code is VALIDATION_NESTED_EXECUTION and False for
\* every other code, the default VALIDATION_INVALID_INPUT included.
C4_ValidationFatalIffNested ==
    (Classified(FALSE) /\ ClassOf(err) = "ValidationError")
    => /\ out = Return(Bool(err.attrs["_code"] = Str("VALIDATION_NESTED_EXECUTION")))
       /\ err.attrs["_code"] = Str("VALIDATION_INVALID_INPUT")
              => out = Return(Bool(FALSE))

C4_Witness ==
    /\ Classified(FALSE)
    /\ ClassOf(err) = "ValidationError"
    /\ ctor.code = Str("VALIDATION_NESTED_EXECUTION")
    /\ out = Return(Bool(TRUE))

\* C5: is_fatal_error returns False, for both values of continue_on_error,
\* for every value that is not a BugfixSessionValidationError,
\* NestedExecutionError, SessionError or ValidationError: None, a value that
\* is no exception, a standard exception, a TaskError.
C5_OthersAreNonFatal ==
    (op = "is_fatal_error"
        /\ ClassOf(err) \notin {"BugfixSessionValidationError", "NestedExecutionError",
                                "SessionError", "ValidationError"})
    => out = Return(Bool(FALSE))

C5_Witness ==
    /\ Classified(FALSE)
    /\ ClassOf(err) = "TaskError"
    /\ err.attrs["context"] # EmptyErrorContext
    /\ out = Return(Bool(FALSE))

----------------------------------------------------------------------------
\* Properties of construction and serialization

\* the constructor of the raise returned an error
Constructed == op = "construct" /\ out.raised = "none"

\* C6: for every successfully constructed error of every concrete variant,
\* to_dict()["code"] equals the value of the code accessor, and that value
\* is a member of the ErrorCode registry.
C6_SerializedCodeInRegistry ==
    (op = "to_dict" /\ out.raised = "none")
    => /\ out.value.d["code"] = code(err)
       /\ code(err).t = "str"
       /\ code(err).s \in ErrorCode

\* C7: a SessionError or ValidationError constructed with code argument c
\* has a code accessor equal to c, and constructed without one it has the
\* variant's default (SESSION_LOAD_FAILED, with is_load_error() true, or
\* VALIDATION_INVALID_INPUT), whatever the context and the cause are.
C7_CodeIsTheArgument ==
    (Constructed /\ ctor.cls \in {"SessionError", "ValidationError"})
    => /\ ctor.code # None => code(err) = ctor.code
       /\ (ctor.code = None /\ ctor.cls = "SessionError")
              => /\ code(err) = Str("SESSION_LOAD_FAILED")
                 /\ SessionError_is_load_error(err) = Return(Bool(TRUE))
       /\ (ctor.code = None /\ ctor.cls = "ValidationError")
              => code(err) = Str("VALIDATION_INVALID_INPUT")

\* C8: to_dict() of every successfully constructed error has the keys name,
\* code, message and timestamp, has the key context exactly when the
\* context's to_dict() is not empty, and has the key cause exactly when a
\* cause is attached, the cause record then having the two keys name and
\* message and no other.
C8_SerializedKeys ==
    (op = "to_dict")
    => /\ out.raised = "none"
       /\ LET d == out.value.d
              always == {"name", "code", "message", "timestamp"}
          IN  /\ always \subseteq DOMAIN d
              /\ (DOMAIN d) \subseteq always \cup {"context", "cause"}
              /\ "context" \in DOMAIN d
                     <=> ErrorContext_to_dict(err.attrs["context"]) # EmptyMap
              /\ "cause" \in DOMAIN d <=> err.cause # None
              /\ "cause" \in DOMAIN d => DOMAIN d["cause"].d = {"name", "message"}

C10_MalformedContext ==
    (op = "construct")
    => /\ (\/ ctor.context.t \notin {"ErrorContext", "dict", "None"}
           \/ /\ ctor.context.t = "dict"
              /\ ~((DOMAIN ctor.context.d) \subseteq
                      {"session_path", "task_id", "operation", "user_id", "metadata"}))
          => /\ out = Raise("TypeError")
             /\ ClassOf(err) \notin ConcreteVariants
       /\ ctor.context = None
          => /\ out.raised = "none"
             /\ ClassOf(err) = ctor.cls
             /\ err.attrs["context"] =
                    [t |-> "ErrorContext", session_path |-> None, task_id |-> None,
                     operation |-> None, user_id |-> None, metadata |-> Dict(EmptyMap)]

C10_Witness ==
    /\ op = "construct"
    /\ ctor.context.t = "dict"
    /\ "pid" \in DOMAIN ctor.context.d
    /\ out = Raise("TypeError")
    /\ ClassOf(err) = "TypeError"

----------------------------------------------------------------------------
\* Properties of the attribute flattening

\* the context argument is an ErrorContext or a mapping ErrorContext accepts
AcceptedContext(context) ==
    \/ context.t = "ErrorContext"
    \/ /\ context.t = "dict"
       /\ (DOMAIN context.d) \subseteq
              {"session_path", "task_id", "operation", "user_id", "metadata"}

\* C11: for every accepted context, with any metadata keys, construction
\* succeeds; every key k with value v of the context's to_dict() is an
\* attribute k of the error with value v; and the error's code, message and
\* timestamp are those of the same construction without a context, its
\* context being the ErrorContext it was given.
C11_FlatteningKeepsTheError ==
    (op = "construct" /\ ctor.cls \in ConcreteVariants /\ AcceptedContext(ctor.context))
    => /\ out.raised = "none"
       /\ LET given == NormalizeContext(ctor.context).value
              items == ErrorContext_to_dict(given)
              plain == Construct(ctor.cls, ctor.message, None, ctor.cause,
                                 ctor.code, ctor.now).value
          IN  /\ \A k \in DOMAIN items :
                     k \in DOMAIN err.attrs /\ err.attrs[k] = items[k]
              /\ code(err) = code(plain)
              /\ err.args = plain.args
              /\ err.attrs["timestamp"] = plain.attrs["timestamp"]
              /\ err.attrs["context"] = given

----------------------------------------------------------------------------
\* Properties of the calls made on a caught error

\* the value the driver caught from its raise, as it was when caught
AsCaught ==
    IF ctor.cls = "none" THEN ctor.value
    ELSE LET made == Construct(ctor.cls, ctor.message, ctor.context, ctor.cause,
                               ctor.code, ctor.now)
         IN  IF made.raised = "none" THEN made.value
             ELSE StdExc(made.raised, Str("constructor"))

\* C12: after construction, whatever calls to is_fatal_error (with either
\* flag), to_dict, to_json, the string form, is_load_error, is_save_error
\* and the type-membership queries were made, the error's code, message,
\* timestamp, context and cause are those it was constructed with, and a
\* classification returns what it returns on the freshly constructed error.
C12_CallsLeaveTheErrorUnchanged ==
    (op # "init")
    => /\ err = AsCaught
       /\ is_pipeline_error(AsCaught)
              => /\ code(err) = code(AsCaught)
                 /\ err.args = AsCaught.args
                 /\ err.attrs["timestamp"] = AsCaught.attrs["timestamp"]
                 /\ err.attrs["context"] = AsCaught.attrs["context"]
                 /\ err.cause = AsCaught.cause
       /\ op = "is_fatal_error" => out = is_fatal_error(AsCaught, flag)

C12_Witness ==
    /\ op = "to_json"
    /\ out.raised = "none"
    /\ out.value.kind = "object"
    /\ {"context", "cause"} \subseteq DOMAIN out.value.members
    /\ ClassOf(err) = "SessionError"
    /\ err = AsCaught

====
